---------------------------- MODULE Spec2Model ----------------------------
(***************************************************************************)
(* A model of the DateTime MCP server (src/index.ts).                      *)
(*                                                                         *)
(* Strings are sequences of one-character strings, so that concatenation,  *)
(* slicing and the global replacements of formatCustomDate are computed    *)
(* and not assumed.  A JavaScript value that may be undefined is a         *)
(* sequence of length at most one: << >> is undefined, <<v>> is v.         *)
(*                                                                         *)
(* A Date's time value (milliseconds since the epoch) does not fit TLC's   *)
(* 32-bit integers, so a time value t is the record [hi, lo] with          *)
(* t = hi * 1000 + lo and 0 <= lo < 1000.                                  *)
(***************************************************************************)
EXTENDS Integers, Sequences, FiniteSets, TLC

VARIABLES
    env,              \* process.env at load: the three optional settings
    hostTimeZone,     \* Intl.DateTimeFormat().resolvedOptions().timeZone
    runtime,          \* the JavaScript runtime's Intl behaviour (build dependent)
    DATETIME_FORMAT,  \* module constant, src/index.ts:38
    DATE_FORMAT_STRING, \* module constant, src/index.ts:39-40
    TIMEZONE,         \* module constant, src/index.ts:41-42
    phase,            \* "starting" | "running" | "exited"
    exitCode,         \* << >> while the process lives, <<1>> after process.exit(1)
    clock,            \* the system clock that new Date() reads
    received,         \* tool-call requests delivered to the handler
    answered,         \* tool-call requests whose handler returned a response
    faults,           \* tool-call requests whose handler threw
    last,             \* the latest request: what it was given and what it produced
    inflight          \* the handler invocations that have not returned yet

vars == <<env, hostTimeZone, runtime, DATETIME_FORMAT, DATE_FORMAT_STRING,
          TIMEZONE, phase, exitCode, clock, received, answered, faults, last,
          inflight>>

----------------------------------------------------------------------------
(* String literals of the source and of the test inputs. *)

Str_iso == <<"i", "s", "o">>
Str_unix == <<"u", "n", "i", "x">>
Str_unix_ms == <<"u", "n", "i", "x", "_", "m", "s">>
Str_human == <<"h", "u", "m", "a", "n">>
Str_date == <<"d", "a", "t", "e">>
Str_time == <<"t", "i", "m", "e">>
Str_custom == <<"c", "u", "s", "t", "o", "m">>
Str_bogus == <<"b", "o", "g", "u", "s", "-", "v", "a", "l", "u", "e">>
Str_UNIX == <<"U", "N", "I", "X">>
Str_get_current_time == <<"g", "e", "t", "_", "c", "u", "r", "r", "e", "n", "t", "_", "t", "i", "m", "e">>
Str_get_timestamp == <<"g", "e", "t", "_", "t", "i", "m", "e", "s", "t", "a", "m", "p">>
Str_get_date == <<"g", "e", "t", "_", "d", "a", "t", "e">>
Str_seconds == <<"s", "e", "c", "o", "n", "d", "s">>
Str_milliseconds == <<"m", "i", "l", "l", "i", "s", "e", "c", "o", "n", "d", "s">>
Str_minutes == <<"m", "i", "n", "u", "t", "e", "s">>
Str_UTC == <<"U", "T", "C">>
Str_utc == <<"u", "t", "c">>
Str_Tokyo == <<"A", "s", "i", "a", "/", "T", "o", "k", "y", "o">>
Str_Phoenix == <<"A", "m", "e", "r", "i", "c", "a", "/", "P", "h", "o", "e", "n", "i", "x">>
Str_NotAZone == <<"N", "o", "t", "/", "A", "Z", "o", "n", "e">>
Str_DefaultTemplate == <<"Y", "Y", "Y", "Y", "-", "M", "M", "-", "D", "D", " ", "H", "H", ":", "m", "m", ":", "s", "s">>
Str_DocTemplate == <<"Y", "Y", "Y", "Y", "/", "M", "M", "/", "D", "D", " ", "H", "H", ":", "m", "m">>
Str_DMY == <<"D", "D", "/", "M", "M", "/", "Y", "Y", "Y", "Y">>
Str_YMD == <<"Y", "Y", "Y", "Y", "-", "M", "M", "-", "D", "D">>
Str_ErrorFormatting == <<"E", "r", "r", "o", "r", " ", "f", "o", "r", "m", "a", "t", "t", "i", "n", "g", " ", "d", "a", "t", "e", ":", " ">>
Str_UnknownTool == <<"U", "n", "k", "n", "o", "w", "n", " ", "t", "o", "o", "l", ":", " ">>
Str_InvalidTimeZone == <<"I", "n", "v", "a", "l", "i", "d", " ", "t", "i", "m", "e", " ", "z", "o", "n", "e", " ", "s", "p", "e", "c", "i", "f", "i", "e", "d", ":", " ">>
Str_YYYY == <<"Y", "Y", "Y", "Y">>
Str_YY == <<"Y", "Y">>
Str_MM == <<"M", "M">>
Str_DD == <<"D", "D">>
Str_HH == <<"H", "H">>
Str_mm == <<"m", "m">>
Str_ss == <<"s", "s">>

----------------------------------------------------------------------------
(* JavaScript values and operators. *)

Undefined == << >>

Some(v) == <<v>>

\* ToBoolean of an optional string: undefined and "" are falsy.
Truthy(v) == v # Undefined /\ v[1] # << >>

\* a || b, for an optional string a and a string b.
OrElse(a, b) == IF Truthy(a) THEN a[1] ELSE b

\* args?.field : undefined when args is undefined or has no such field.
OptionalField(args, field) ==
    IF args = Undefined THEN Undefined
    ELSE IF field \in DOMAIN args[1] THEN args[1][field] ELSE Undefined

DigitChars == <<"0", "1", "2", "3", "4", "5", "6", "7", "8", "9">>

Digit(n) == DigitChars[n + 1]

IsDigit(c) == \E i \in 1..10 : DigitChars[i] = c

RECURSIVE NatToString(_)
NatToString(n) ==
    IF n < 10 THEN <<Digit(n)>> ELSE NatToString(n \div 10) \o <<Digit(n % 10)>>

\* Number.prototype.toString of an integer that fits 32 bits.
IntToString(i) == IF i < 0 THEN <<"-">> \o NatToString(0 - i) ELSE NatToString(i)

Pad2(n) == <<Digit((n \div 10) % 10), Digit(n % 10)>>

Pad3(n) == <<Digit((n \div 100) % 10), Digit((n \div 10) % 10), Digit(n % 10)>>

Pad4(n) == <<Digit((n \div 1000) % 10), Digit((n \div 100) % 10),
             Digit((n \div 10) % 10), Digit(n % 10)>>

\* toString of a non-negative time value [hi, lo].
MagnitudeToString(hi, lo) ==
    IF hi = 0 THEN NatToString(lo) ELSE NatToString(hi) \o Pad3(lo)

\* Number.prototype.toString of a time value t = hi * 1000 + lo.
TimeValueToString(t) ==
    IF t.hi >= 0 THEN MagnitudeToString(t.hi, t.lo)
    ELSE IF t.lo = 0 THEN <<"-">> \o MagnitudeToString(0 - t.hi, 0)
    ELSE <<"-">> \o MagnitudeToString(0 - t.hi - 1, 1000 - t.lo)

\* Date.prototype.getTime
getTime(date) == date

\* Math.round(t / 1000) of a time value.
MathFloorDiv1000_Rounds(t) == t.hi + (IF t.lo >= 500 THEN 1 ELSE 0)

\* Math.floor(t / 1000) of a time value: lo / 1000 lies in [0, 1).
MathFloorDiv1000(t) == t.hi

\* String.prototype.slice(-2)
SliceLast2(s) == IF Len(s) <= 2 THEN s ELSE SubSeq(s, Len(s) - 1, Len(s))

StartsWith(s, p) == Len(s) >= Len(p) /\ SubSeq(s, 1, Len(p)) = p

Drop(s, n) == SubSeq(s, n + 1, Len(s))

\* String.prototype.replace(/token/g, value): every match, left to right, a
\* match never overlapping the one before it.  The values substituted here
\* hold no "$", so no replacement pattern is expanded.
RECURSIVE ReplaceAll(_, _, _)
ReplaceAll(s, token, value) ==
    IF s = << >> THEN << >>
    ELSE IF StartsWith(s, token)
         THEN value \o ReplaceAll(Drop(s, Len(token)), token, value)
         ELSE <<Head(s)>> \o ReplaceAll(Tail(s), token, value)

\* Completion records: a call returns a value or throws an Error.
Normal(v) == [type |-> "normal", value |-> v]

Throw(message) == [type |-> "throw", value |-> message]


----------------------------------------------------------------------------
(* The runtime's time zone database and calendar (Intl, Date). *)

\* The lower-case form of each upper-case letter.
LowerOf ==
    ("A" :> "a") @@ ("B" :> "b") @@ ("C" :> "c") @@ ("D" :> "d") @@ ("E" :> "e")
    @@ ("F" :> "f") @@ ("G" :> "g") @@ ("H" :> "h") @@ ("I" :> "i") @@ ("J" :> "j")
    @@ ("K" :> "k") @@ ("L" :> "l") @@ ("M" :> "m") @@ ("N" :> "n") @@ ("O" :> "o")
    @@ ("P" :> "p") @@ ("Q" :> "q") @@ ("R" :> "r") @@ ("S" :> "s") @@ ("T" :> "t")
    @@ ("U" :> "u") @@ ("V" :> "v") @@ ("W" :> "w") @@ ("X" :> "x") @@ ("Y" :> "y")
    @@ ("Z" :> "z")

ToLowerChar(c) == IF c \in DOMAIN LowerOf THEN LowerOf[c] ELSE c

ToLower(s) == [i \in 1..Len(s) |-> ToLowerChar(s[i])]

\* The zones of the database that the model uses, with their offset from UTC
\* in seconds.  None of them has had a daylight-saving rule since 1968.
TimeZoneTable ==
    << [name |-> Str_UTC, offset |-> 0],
       [name |-> Str_Tokyo, offset |-> 32400],
       [name |-> Str_Phoenix, offset |-> 0 - 25200] >>

\* Zone identifiers are matched without regard to letter case.
IsValidTimeZone(tz) ==
    \E i \in 1..Len(TimeZoneTable) : ToLower(TimeZoneTable[i].name) = ToLower(tz)

TimeZoneOffset(tz) ==
    TimeZoneTable[CHOOSE i \in 1..Len(TimeZoneTable) :
                      ToLower(TimeZoneTable[i].name) = ToLower(tz)].offset

\* The RangeError Intl raises for a timeZone option it cannot resolve.
InvalidTimeZoneError(tz) == Throw(Str_InvalidTimeZone \o tz)

SecondsPerDay == 86400

\* Proleptic Gregorian date of a count of days since 1970-01-01, computed in
\* steps: the 400-year era, the day and year of the era, the day of the year
\* counted from 1 March, the month counted from March.
CivilOfMonth(y, m, d) ==
    [year |-> y + (IF m <= 2 THEN 1 ELSE 0), month |-> m, day |-> d]

CivilOfMp(era, yoe, doy, mp) ==
    CivilOfMonth(yoe + era * 400, IF mp < 10 THEN mp + 3 ELSE mp - 9,
                 doy - (153 * mp + 2) \div 5 + 1)

CivilOfDoy(era, yoe, doy) == CivilOfMp(era, yoe, doy, (5 * doy + 2) \div 153)

CivilOfYoe(era, doe, yoe) ==
    CivilOfDoy(era, yoe, doe - (365 * yoe + yoe \div 4 - yoe \div 100))

CivilOfDoe(era, doe) ==
    CivilOfYoe(era, doe,
               (doe - doe \div 1460 + doe \div 36524 - doe \div 146096) \div 365)

CivilOfEra(z, era) == CivilOfDoe(era, z - era * 146097)

CivilFromDays(days) == CivilOfEra(days + 719468, (days + 719468) \div 146097)

FieldsOf(civil, days, sod, ms) ==
    [year |-> civil.year, month |-> civil.month, day |-> civil.day,
     hour |-> sod \div 3600, minute |-> (sod \div 60) % 60, second |-> sod % 60,
     weekday |-> (days + 4) % 7, millisecond |-> ms]

FieldsOfLocal(local, ms) ==
    FieldsOf(CivilFromDays(local \div SecondsPerDay), local \div SecondsPerDay,
             local % SecondsPerDay, ms)

\* The calendar and clock fields of a time value at an offset from UTC.
FieldsAt(date, offset) == FieldsOfLocal(date.hi + offset, date.lo)

\* An ISO string that always shows zero milliseconds.
IsoOfFields_NoMillis(f) ==
    Pad4(f.year) \o <<"-">> \o Pad2(f.month) \o <<"-">> \o Pad2(f.day) \o <<"T">>
    \o Pad2(f.hour) \o <<":">> \o Pad2(f.minute) \o <<":">> \o Pad2(f.second)
    \o <<".">> \o Pad3(0) \o <<"Z">>

IsoOfFields(f) ==
    Pad4(f.year) \o <<"-">> \o Pad2(f.month) \o <<"-">> \o Pad2(f.day) \o <<"T">>
    \o Pad2(f.hour) \o <<":">> \o Pad2(f.minute) \o <<":">> \o Pad2(f.second)
    \o <<".">> \o Pad3(f.millisecond) \o <<"Z">>

\* Date.prototype.toISOString: always UTC, millisecond precision.
toISOString(date) == IsoOfFields(FieldsAt(date, 0))

WeekdayShort == << <<"S", "u", "n">>, <<"M", "o", "n">>, <<"T", "u", "e">>, <<"W", "e", "d">>, <<"T", "h", "u">>, <<"F", "r", "i">>, <<"S", "a", "t">> >>

MonthShort == << <<"J", "a", "n">>, <<"F", "e", "b">>, <<"M", "a", "r">>, <<"A", "p", "r">>, <<"M", "a", "y">>, <<"J", "u", "n">>, <<"J", "u", "l">>, <<"A", "u", "g">>, <<"S", "e", "p">>, <<"O", "c", "t">>, <<"N", "o", "v">>, <<"D", "e", "c">> >>

\* hour: "2-digit" with hour12: false in en-US.  The hour cycle the runtime
\* derives from hour12: false is h23 or h24, depending on its version.
Hour24String(h) ==
    IF runtime.hourCycle = "h24" /\ h = 0 THEN Pad2(24) ELSE Pad2(h)

\* The hour of the h11 cycle: 00 at midnight and at noon.
Hour12String_H11(h) == Pad2(h % 12)

\* hour: "2-digit" with hour12: true in en-US.
Hour12String(h) == IF h % 12 = 0 THEN Pad2(12) ELSE Pad2(h % 12)

DayPeriod(h) == IF h < 12 THEN <<"A", "M">> ELSE <<"P", "M">>

PartsOfFields(f) ==
    << [type |-> "month", value |-> Pad2(f.month)],
       [type |-> "literal", value |-> <<"/">>],
       [type |-> "day", value |-> Pad2(f.day)],
       [type |-> "literal", value |-> <<"/">>],
       [type |-> "year", value |-> NatToString(f.year)],
       [type |-> "literal", value |-> <<",", " ">>],
       [type |-> "hour", value |-> Hour24String(f.hour)],
       [type |-> "literal", value |-> <<":">>],
       [type |-> "minute", value |-> Pad2(f.minute)],
       [type |-> "literal", value |-> <<":">>],
       [type |-> "second", value |-> Pad2(f.second)] >>

\* Intl.DateTimeFormat("en-US", {year: "numeric", month: "2-digit", day: "2-digit",
\* hour: "2-digit", minute: "2-digit", second: "2-digit", hour12: false})
\* .formatToParts(date)
formatToParts(date, timezone) ==
    PartsOfFields(FieldsAt(date, TimeZoneOffset(timezone)))

HumanOfFields(f) ==
    WeekdayShort[f.weekday + 1] \o <<",", " ">> \o MonthShort[f.month]
    \o <<" ">> \o NatToString(f.day) \o <<",", " ">> \o NatToString(f.year)
    \o <<",", " ">> \o Hour12String(f.hour) \o <<":">> \o Pad2(f.minute)
    \o <<":">> \o Pad2(f.second) \o <<runtime.dayPeriodSeparator>>
    \o DayPeriod(f.hour)

\* date.toLocaleString("en-US", {weekday: "short", year: "numeric", month: "short",
\* day: "numeric", hour/minute/second: "2-digit", hour12: true, timeZone})
toLocaleStringHuman(date, timezone) ==
    HumanOfFields(FieldsAt(date, TimeZoneOffset(timezone)))

\* The date as the en-US locale writes it: month, day, year.
DateOfFields_EnUs(f) ==
    Pad2(f.month) \o <<"/">> \o Pad2(f.day) \o <<"/">> \o NatToString(f.year)

DateOfFields(f) ==
    NatToString(f.year) \o <<"-">> \o Pad2(f.month) \o <<"-">> \o Pad2(f.day)

\* A date rendered without the timeZone option: the fields are those of UTC.
toLocaleDateString_Utc(date, timezone) == DateOfFields(FieldsAt(date, 0))

\* date.toLocaleDateString("en-CA", {year: "numeric", month: "2-digit",
\* day: "2-digit", timeZone})
toLocaleDateString(date, timezone) ==
    DateOfFields(FieldsAt(date, TimeZoneOffset(timezone)))

TimeOfFields(f) ==
    Hour24String(f.hour) \o <<":">> \o Pad2(f.minute) \o <<":">> \o Pad2(f.second)

\* date.toLocaleTimeString("en-US", {hour/minute/second: "2-digit",
\* hour12: false, timeZone})
toLocaleTimeString(date, timezone) ==
    TimeOfFields(FieldsAt(date, TimeZoneOffset(timezone)))

----------------------------------------------------------------------------
(* The formatting engine: formatDateTime and formatCustomDate. *)

\* parts.forEach((part) => { partsMap[part.type] = part.value })
PartsMapOf(parts) ==
    [t \in {parts[i].type : i \in 1..Len(parts)} |->
        parts[CHOOSE i \in 1..Len(parts) :
                 /\ parts[i].type = t
                 /\ \A j \in 1..Len(parts) : parts[j].type = t => j <= i].value]

\* partsMap.key || ""
PartOrEmpty(partsMap, key) ==
    IF key \in DOMAIN partsMap /\ partsMap[key] # << >> THEN partsMap[key] ELSE << >>

\* String.prototype.replace with a string pattern: the first match only.
RECURSIVE ReplaceFirst(_, _, _)
ReplaceFirst(s, token, value) ==
    IF s = << >> THEN << >>
    ELSE IF StartsWith(s, token) THEN value \o Drop(s, Len(token))
         ELSE <<Head(s)>> \o ReplaceFirst(Tail(s), token, value)

\* The replacements without the global flag: one occurrence per token.
ReplaceTokens_FirstMatchOnly(formatString, partsMap) ==
    LET r1 == ReplaceFirst(formatString, Str_YYYY, PartOrEmpty(partsMap, "year"))
        r2 == ReplaceFirst(r1, Str_YY, SliceLast2(PartOrEmpty(partsMap, "year")))
        r3 == ReplaceFirst(r2, Str_MM, PartOrEmpty(partsMap, "month"))
        r4 == ReplaceFirst(r3, Str_DD, PartOrEmpty(partsMap, "day"))
        r5 == ReplaceFirst(r4, Str_HH, PartOrEmpty(partsMap, "hour"))
        r6 == ReplaceFirst(r5, Str_mm, PartOrEmpty(partsMap, "minute"))
    IN ReplaceFirst(r6, Str_ss, PartOrEmpty(partsMap, "second"))

\* The replacements with the day pattern /^DD/: a day token is replaced
\* only where the template starts with it.
ReplaceTokens_AnchoredDay(formatString, partsMap) ==
    LET r1 == ReplaceAll(formatString, Str_YYYY, PartOrEmpty(partsMap, "year"))
        r2 == ReplaceAll(r1, Str_YY, SliceLast2(PartOrEmpty(partsMap, "year")))
        r3 == ReplaceAll(r2, Str_MM, PartOrEmpty(partsMap, "month"))
        r4 == IF StartsWith(r3, Str_DD)
              THEN PartOrEmpty(partsMap, "day") \o Drop(r3, Len(Str_DD)) ELSE r3
        r5 == ReplaceAll(r4, Str_HH, PartOrEmpty(partsMap, "hour"))
        r6 == ReplaceAll(r5, Str_mm, PartOrEmpty(partsMap, "minute"))
    IN ReplaceAll(r6, Str_ss, PartOrEmpty(partsMap, "second"))

\* The replacements with the two-character year token taken first.
ReplaceTokens_YYFirst(formatString, partsMap) ==
    LET r1 == ReplaceAll(formatString, Str_YY, SliceLast2(PartOrEmpty(partsMap, "year")))
        r2 == ReplaceAll(r1, Str_YYYY, PartOrEmpty(partsMap, "year"))
        r3 == ReplaceAll(r2, Str_MM, PartOrEmpty(partsMap, "month"))
        r4 == ReplaceAll(r3, Str_DD, PartOrEmpty(partsMap, "day"))
        r5 == ReplaceAll(r4, Str_HH, PartOrEmpty(partsMap, "hour"))
        r6 == ReplaceAll(r5, Str_mm, PartOrEmpty(partsMap, "minute"))
    IN ReplaceAll(r6, Str_ss, PartOrEmpty(partsMap, "second"))

\* The replacements with the month written where the minute belongs.
ReplaceTokens_MonthForMinute(formatString, partsMap) ==
    LET r1 == ReplaceAll(formatString, Str_YYYY, PartOrEmpty(partsMap, "year"))
        r2 == ReplaceAll(r1, Str_YY, SliceLast2(PartOrEmpty(partsMap, "year")))
        r3 == ReplaceAll(r2, Str_MM, PartOrEmpty(partsMap, "month"))
        r4 == ReplaceAll(r3, Str_DD, PartOrEmpty(partsMap, "day"))
        r5 == ReplaceAll(r4, Str_HH, PartOrEmpty(partsMap, "hour"))
        r6 == ReplaceAll(r5, Str_mm, PartOrEmpty(partsMap, "month"))
    IN ReplaceAll(r6, Str_ss, PartOrEmpty(partsMap, "second"))

\* The replacements with the minute pattern /m/g: a lone m is consumed.
ReplaceTokens_LoneLetter(formatString, partsMap) ==
    LET r1 == ReplaceAll(formatString, Str_YYYY, PartOrEmpty(partsMap, "year"))
        r2 == ReplaceAll(r1, Str_YY, SliceLast2(PartOrEmpty(partsMap, "year")))
        r3 == ReplaceAll(r2, Str_MM, PartOrEmpty(partsMap, "month"))
        r4 == ReplaceAll(r3, Str_DD, PartOrEmpty(partsMap, "day"))
        r5 == ReplaceAll(r4, Str_HH, PartOrEmpty(partsMap, "hour"))
        r6 == ReplaceAll(ReplaceAll(r5, Str_mm, PartOrEmpty(partsMap, "minute")),
                         <<"m">>, PartOrEmpty(partsMap, "minute"))
    IN ReplaceAll(r6, Str_ss, PartOrEmpty(partsMap, "second"))

\* The seven global replacements, in the order of the source.
ReplaceTokens(formatString, partsMap) ==
    LET r1 == ReplaceAll(formatString, Str_YYYY, PartOrEmpty(partsMap, "year"))
        r2 == ReplaceAll(r1, Str_YY, SliceLast2(PartOrEmpty(partsMap, "year")))
        r3 == ReplaceAll(r2, Str_MM, PartOrEmpty(partsMap, "month"))
        r4 == ReplaceAll(r3, Str_DD, PartOrEmpty(partsMap, "day"))
        r5 == ReplaceAll(r4, Str_HH, PartOrEmpty(partsMap, "hour"))
        r6 == ReplaceAll(r5, Str_mm, PartOrEmpty(partsMap, "minute"))
    IN ReplaceAll(r6, Str_ss, PartOrEmpty(partsMap, "second"))

formatCustomDate(date, formatString, timezone) ==
    IF ~IsValidTimeZone(timezone) THEN InvalidTimeZoneError(timezone)
    ELSE Normal(ReplaceTokens(formatString,
                              PartsMapOf(formatToParts(date, timezone))))

FormatIso(date) == Normal(toISOString(date))

\* Seconds by cutting the fraction off: toward zero.
FormatUnix_Truncates(date) ==
    Normal(IntToString(IF getTime(date).hi < 0 /\ getTime(date).lo > 0
                       THEN getTime(date).hi + 1 ELSE getTime(date).hi))

FormatUnix(date) == Normal(IntToString(MathFloorDiv1000(getTime(date))))

FormatUnixMs(date) == Normal(TimeValueToString(getTime(date)))

FormatHuman(date, timezone) ==
    IF ~IsValidTimeZone(timezone) THEN InvalidTimeZoneError(timezone)
    ELSE Normal(toLocaleStringHuman(date, timezone))

FormatDate(date, timezone) ==
    IF ~IsValidTimeZone(timezone) THEN InvalidTimeZoneError(timezone)
    ELSE Normal(toLocaleDateString(date, timezone))

FormatTime(date, timezone) ==
    IF ~IsValidTimeZone(timezone) THEN InvalidTimeZoneError(timezone)
    ELSE Normal(toLocaleTimeString(date, timezone))

\* case "custom", for the template the module constant holds.
FormatCustom(date, template, timezone) == formatCustomDate(date, template, timezone)

\* A default branch that rejects the format.
FormatDefault_Rejects(date, timezone) ==
    Throw(<<"U", "n", "k", "n", "o", "w", "n", " ", "f", "o", "r", "m", "a", "t">>)

\* The default branch of the switch.
FormatDefault(date, timezone) == Normal(toISOString(date))

\* A switch whose default branch falls into the custom branch.
SwitchWith_DefaultIsCustom(date, format, timezone, template) ==
    CASE format = Str_iso -> FormatIso(date)
      [] format = Str_unix -> FormatUnix(date)
      [] format = Str_unix_ms -> FormatUnixMs(date)
      [] format = Str_human -> FormatHuman(date, timezone)
      [] format = Str_date -> FormatDate(date, timezone)
      [] format = Str_time -> FormatTime(date, timezone)
      [] OTHER -> FormatCustom(date, template, timezone)

\* switch (format) { ... }, with the value of DATE_FORMAT_STRING it closes
\* over as template.
SwitchWith(date, format, timezone, template) ==
    CASE format = Str_iso -> FormatIso(date)
      [] format = Str_unix -> FormatUnix(date)
      [] format = Str_unix_ms -> FormatUnixMs(date)
      [] format = Str_human -> FormatHuman(date, timezone)
      [] format = Str_date -> FormatDate(date, timezone)
      [] format = Str_time -> FormatTime(date, timezone)
      [] format = Str_custom -> FormatCustom(date, template, timezone)
      [] OTHER -> FormatDefault(date, timezone)

\* The switch as the module runs it: the template is DATE_FORMAT_STRING.
\* A switch on the format in lower case.
Switch_IgnoresCase(date, format, timezone) ==
    SwitchWith(date, ToLower(format), timezone, DATE_FORMAT_STRING)

Switch(date, format, timezone) ==
    SwitchWith(date, format, timezone, DATE_FORMAT_STRING)

\* A formatDateTime that hands the timezone to Intl before the switch.
formatDateTime_EagerTimezone(date, format, timezone) ==
    IF ~IsValidTimeZone(timezone) THEN InvalidTimeZoneError(timezone)
    ELSE Switch(date, format, timezone)

\* A formatDateTime that keeps a count between calls and writes it after
\* its output.
formatDateTime_Counting(date, format, timezone) ==
    IF Switch(date, format, timezone).type = "normal"
    THEN Normal(Switch(date, format, timezone).value \o NatToString(answered))
    ELSE Switch(date, format, timezone)

\* The options object only stores the timezone; the branches that hand the
\* options to Intl are the ones that consult it.
formatDateTime(date, format, timezone) == Switch(date, format, timezone)

----------------------------------------------------------------------------
(* Tools and request handlers. *)

\* The enum of the format property of GET_CURRENT_TIME_TOOL's schema.
FormatEnum == <<Str_iso, Str_unix, Str_unix_ms, Str_human, Str_date, Str_time,
                Str_custom>>

UnitEnum == <<Str_seconds, Str_milliseconds>>

GET_CURRENT_TIME_TOOL ==
    [name |-> Str_get_current_time,
     formatEnum |-> FormatEnum,
     formatDefault |-> DATETIME_FORMAT,
     timezoneDefault |-> TIMEZONE]

GET_TIMESTAMP_TOOL ==
    [name |-> Str_get_timestamp, unitEnum |-> UnitEnum]

\* A handler that lists the tools in the other order.
ListToolsHandler_Swapped == [tools |-> <<GET_TIMESTAMP_TOOL, GET_CURRENT_TIME_TOOL>>]

ListToolsHandler == [tools |-> <<GET_CURRENT_TIME_TOOL, GET_TIMESTAMP_TOOL>>]

TextContent(text) == <<[type |-> "text", text |-> text]>>

\* args?.format ?? DATETIME_FORMAT: an empty format would win.
ResolveFormat_Nullish(args) ==
    IF OptionalField(args, "format") # Undefined
    THEN OptionalField(args, "format")[1]
    ELSE DATETIME_FORMAT

\* const format = args?.format || DATETIME_FORMAT
ResolveFormat(args) == OrElse(OptionalField(args, "format"), DATETIME_FORMAT)

\* const timezone = args?.timezone || TIMEZONE
ResolveTimezone(args) == OrElse(OptionalField(args, "timezone"), TIMEZONE)

\* const unit = args?.unit || "seconds"
ResolveUnit(args) == OrElse(OptionalField(args, "unit"), Str_seconds)

\* A catch block that forgets the error flag.
ResultOrCaught_Unflagged(c) ==
    IF c.type = "normal"
    THEN Normal([content |-> TextContent(c.value)])
    ELSE Normal([content |-> TextContent(Str_ErrorFormatting \o c.value)])

\* What the try block returns and what the catch block returns, for the
\* completion c of the call of formatDateTime.
ResultOrCaught(c) ==
    IF c.type = "normal"
    THEN Normal([content |-> TextContent(c.value)])
    ELSE Normal([content |-> TextContent(Str_ErrorFormatting \o c.value),
                 isError |-> TRUE])

\* The call of formatDateTime without the try and catch around it.
TryFormat_NoCatch(now, format, timezone) ==
    IF formatDateTime(now, format, timezone).type = "normal"
    THEN ResultOrCaught(formatDateTime(now, format, timezone))
    ELSE formatDateTime(now, format, timezone)

\* try { formatDateTime ... } catch (error) { ... }
TryFormat(now, format, timezone) ==
    ResultOrCaught(formatDateTime(now, format, timezone))

Formatted(format, timezone, now) ==
    [format |-> Some(format), timezone |-> Some(timezone), unit |-> Undefined,
     completion |-> TryFormat(now, format, timezone)]

\* A handler that lets the request's arguments carry the template.
GetCurrentTimeBranch_ArgTemplate(args, now) ==
    [format |-> Some(ResolveFormat(args)),
     timezone |-> Some(ResolveTimezone(args)), unit |-> Undefined,
     completion |->
         ResultOrCaught(SwitchWith(now, ResolveFormat(args), ResolveTimezone(args),
                                   OrElse(OptionalField(args, "formatString"),
                                          DATE_FORMAT_STRING)))]

GetCurrentTimeBranch(args, now) ==
    Formatted(ResolveFormat(args), ResolveTimezone(args), now)

\* A timestamp that rounds to the nearest second.
Timestamp_Rounds(unit, now) ==
    IF unit = Str_milliseconds
    THEN TimeValueToString(getTime(now))
    ELSE IntToString(getTime(now).hi + (IF getTime(now).lo >= 500 THEN 1 ELSE 0))

\* A timestamp with the test the other way round: seconds only when the
\* unit is "seconds".
Timestamp_SecondsIfNamed(unit, now) ==
    IF unit = Str_seconds
    THEN IntToString(MathFloorDiv1000(getTime(now)))
    ELSE TimeValueToString(getTime(now))

Timestamp(unit, now) ==
    IF unit = Str_milliseconds
    THEN TimeValueToString(getTime(now))
    ELSE IntToString(MathFloorDiv1000(getTime(now)))

Stamped(unit, now) ==
    [format |-> Undefined, timezone |-> Undefined, unit |-> Some(unit),
     completion |-> Normal([content |-> TextContent(Timestamp(unit, now))])]

GetTimestampBranch(args, now) == Stamped(ResolveUnit(args), now)

\* An unknown tool that throws instead of returning an error value.
UnknownToolBranch_Throws(name) ==
    [format |-> Undefined, timezone |-> Undefined, unit |-> Undefined,
     completion |-> Throw(Str_UnknownTool \o name)]

UnknownToolBranch(name) ==
    [format |-> Undefined, timezone |-> Undefined, unit |-> Undefined,
     completion |-> Normal([content |-> TextContent(Str_UnknownTool \o name),
                            isError |-> TRUE])]

\* The CallToolRequestSchema handler; now is what new Date() reads.
CallToolHandler(name, args, now) ==
    IF name = Str_get_current_time THEN GetCurrentTimeBranch(args, now)
    ELSE IF name = Str_get_timestamp THEN GetTimestampBranch(args, now)
    ELSE UnknownToolBranch(name)


----------------------------------------------------------------------------
(* Inputs. *)

\* The most tool-call requests a behaviour delivers.
MaxRequests == 2

\* 2024-01-15T10:30:00.000Z
T_Doc == [hi |-> 1705314600, lo |-> 0]

\* 2024-02-29T15:00:00.000Z: midnight of 2024-03-01 in Asia/Tokyo
T_TokyoMidnight == [hi |-> 1709218800, lo |-> 0]

\* 1969-12-31T23:59:58.500Z, 1500 ms before the epoch
T_PreEpoch == [hi |-> 0 - 2, lo |-> 500]

Instants == {T_Doc, T_TokyoMidnight, T_PreEpoch}

\* What the source leaves to the runtime's Intl data: whether hour12: false
\* is the h23 cycle (midnight is 00) or the h24 cycle (midnight is 24), and
\* the character before AM/PM (a space, or U+202F with newer data).
Runtimes ==
    { [hourCycle |-> "h23", dayPeriodSeparator |-> " "],
      [hourCycle |-> "h24", dayPeriodSeparator |-> "U+202F"] }

HostTimeZones == {Str_Phoenix}

EnvFormats == {Undefined, Some(<< >>), Some(Str_custom)}

EnvTemplates == {Undefined, Some(Str_DocTemplate)}

EnvTimezones == {Undefined, Some(<< >>), Some(Str_Tokyo), Some(Str_NotAZone)}

Environments ==
    [DATETIME_FORMAT : EnvFormats, DATE_FORMAT_STRING : EnvTemplates,
     TIMEZONE : EnvTimezones]

KnownFormats == {FormatEnum[i] : i \in 1..Len(FormatEnum)}

ArgFormats ==
    {Undefined, Some(<< >>), Some(Str_bogus), Some(Str_UNIX)}
        \cup {Some(f) : f \in KnownFormats}

ArgTimezones == {Undefined, Some(<< >>), Some(Str_UTC), Some(Str_NotAZone)}

ArgUnits ==
    {Undefined, Some(<< >>), Some(Str_seconds), Some(Str_milliseconds),
     Some(Str_minutes)}

Args(format, timezone, unit) ==
    Some([format |-> format, timezone |-> timezone, unit |-> unit])

\* The arguments sent with get_current_time: every format with every timezone.
TimeArguments ==
    {Undefined} \cup
        {Args(f, z, Undefined) : f \in ArgFormats, z \in ArgTimezones}

\* The arguments sent with get_timestamp: every unit, alone and beside a
\* format and a timezone.
StampArguments ==
    {Undefined} \cup {Args(Undefined, Undefined, u) : u \in ArgUnits}
        \cup {Args(Some(Str_custom), Some(Str_NotAZone), u) : u \in ArgUnits}

\* Arguments that select the custom format and carry more than the schema
\* names: a unit, a template.
TemplateArguments ==
    { Args(Some(Str_custom), Some(Str_UTC), Some(Str_seconds)),
      Some([format |-> Some(Str_custom), timezone |-> Some(Str_UTC),
            unit |-> Undefined, formatString |-> Some(Str_DMY)]) }

OtherArguments == {Undefined, Args(Some(Str_human), Some(Str_NotAZone), Undefined)}

UnknownToolNames == {Str_get_date, << >>}

Requests ==
    {<<Str_get_current_time, a>> : a \in TimeArguments \cup TemplateArguments}
        \cup {<<Str_get_timestamp, a>> : a \in StampArguments}
        \cup {<<n, a>> : n \in UnknownToolNames, a \in OtherArguments}

NoRequest == [op |-> "none"]

\* The most handler invocations in flight at once.
MaxInFlight == 2

\* An invocation slot that holds no request.
Idle == [pc |-> "idle"]

----------------------------------------------------------------------------
(* The state machine. *)

\* Module load: the three constants are read from the environment once.
Load(environments, hosts, instants) ==
    /\ env \in environments
    /\ hostTimeZone \in hosts
    /\ runtime \in Runtimes
    /\ DATETIME_FORMAT = OrElse(env.DATETIME_FORMAT, Str_iso)
    /\ DATE_FORMAT_STRING = OrElse(env.DATE_FORMAT_STRING, Str_DefaultTemplate)
    /\ TIMEZONE = OrElse(env.TIMEZONE, hostTimeZone)
    /\ phase = "starting"
    /\ exitCode = Undefined
    /\ clock \in instants
    /\ received = 0
    /\ answered = 0
    /\ faults = 0
    /\ last = NoRequest
    /\ inflight = [i \in 1..MaxInFlight |-> Idle]

Init == Load(Environments, HostTimeZones, Instants)

config == <<env, hostTimeZone, runtime, DATETIME_FORMAT, DATE_FORMAT_STRING, TIMEZONE>>

counters == <<received, answered, faults>>

\* A startup that refuses a TIMEZONE the runtime does not recognize.
Connect_ValidatesTimezone ==
    /\ phase = "starting"
    /\ IsValidTimeZone(TIMEZONE)
    /\ phase' = "running"
    /\ UNCHANGED <<config, exitCode, clock, counters, last, inflight>>

\* runServer: server.connect(transport) resolves.
Connect ==
    /\ phase = "starting"
    /\ phase' = "running"
    /\ UNCHANGED <<config, exitCode, clock, counters, last, inflight>>

\* runServer: server.connect(transport) rejects; the catch calls process.exit(1).
ConnectFail ==
    /\ phase = "starting"
    /\ phase' = "exited"
    /\ exitCode' = Some(1)
    /\ UNCHANGED <<config, clock, counters, last, inflight>>

\* The system clock moves (it is not monotonic).
Tick ==
    /\ phase = "running"
    /\ clock' \in Instants \ {clock}
    /\ UNCHANGED <<config, phase, exitCode, counters, last, inflight>>

\* A tools/list request.
ListTools ==
    /\ phase = "running"
    /\ last' = [op |-> "list", response |-> ListToolsHandler]
    /\ UNCHANGED <<config, phase, exitCode, clock, counters, inflight>>

\* The record of a handled request: what it was given, the handler's locals
\* and the handler's completion.
Handled(name, args, now, r) ==
    [op |-> "call", name |-> name, args |-> args, now |-> now,
     format |-> r.format, timezone |-> r.timezone, unit |-> r.unit,
     completion |-> r.completion]

\* A handler that keeps a per-call format as the new default: it assigns the
\* resolved format to the module's DATETIME_FORMAT.
CallTool_StickyOverride(name, args) ==
    /\ phase = "running"
    /\ received < MaxRequests
    /\ last' = Handled(name, args, clock, CallToolHandler(name, args, clock))
    /\ received' = received + 1
    /\ answered' = answered + (IF last'.completion.type = "normal" THEN 1 ELSE 0)
    /\ faults' = faults + (IF last'.completion.type = "throw" THEN 1 ELSE 0)
    /\ DATETIME_FORMAT' = IF name = Str_get_current_time
                          THEN ResolveFormat(args) ELSE DATETIME_FORMAT
    /\ UNCHANGED <<env, hostTimeZone, runtime, DATE_FORMAT_STRING, TIMEZONE,
                   phase, exitCode, clock, inflight>>

\* A tools/call request: the handler runs to completion (it never awaits).
CallTool(name, args) ==
    /\ phase = "running"
    /\ received < MaxRequests
    /\ last' = Handled(name, args, clock, CallToolHandler(name, args, clock))
    /\ received' = received + 1
    /\ answered' = answered + (IF last'.completion.type = "normal" THEN 1 ELSE 0)
    /\ faults' = faults + (IF last'.completion.type = "throw" THEN 1 ELSE 0)
    /\ UNCHANGED <<config, phase, exitCode, clock, inflight>>

Request == \E r \in Requests : CallTool(r[1], r[2])

Next == Connect \/ ConnectFail \/ Tick \/ ListTools \/ Request

Spec == Init /\ [][Next]_vars


----------------------------------------------------------------------------
(* What a state records of the latest request. *)

IsCall == last.op = "call"

IsTimeCall == IsCall /\ last.name = Str_get_current_time

IsStampCall == IsCall /\ last.name = Str_get_timestamp

IsUnknownCall == IsCall /\ last.name \notin {Str_get_current_time, Str_get_timestamp}

Returned == IsCall /\ last.completion.type = "normal"

Response == last.completion.value

ResponseText == Response.content[1].text

Flagged == "isError" \in DOMAIN Response /\ Response.isError = TRUE

\* The argument the request carried under a field, undefined if none.
ArgOf(field) == IF last.args = Undefined THEN Undefined ELSE last.args[1][field]

Present(v) == v # Undefined /\ v[1] # << >>

\* Per-call value, else process-wide setting, else built-in fallback.
ByPrecedence(arg, setting, fallback) ==
    IF Present(arg) THEN arg[1] ELSE IF Present(setting) THEN setting[1] ELSE fallback

Str_DocIso == <<"2", "0", "2", "4", "-", "0", "1", "-", "1", "5", "T", "1", "0", ":", "3", "0", ":", "0", "0", ".", "0", "0", "0", "Z">>

Str_DocUnix == <<"1", "7", "0", "5", "3", "1", "4", "6", "0", "0">>

Str_DocUnixMs == <<"1", "7", "0", "5", "3", "1", "4", "6", "0", "0", "0", "0", "0">>

Str_PreEpochUnix == <<"-", "2">>

Str_PreEpochUnixMs == <<"-", "1", "5", "0", "0">>

TimezoneValues == {Str_UTC, Str_utc, Str_Tokyo, Str_Phoenix, Str_NotAZone, << >>}

TimezoneFreeFormats == {Str_iso, Str_unix, Str_unix_ms}

TimezoneFormats == {Str_human, Str_date, Str_time, Str_custom}

----------------------------------------------------------------------------
(* C1: for every get_current_time request the effective format and the    *)
(* effective timezone are each the per-call argument if present and        *)
(* non-empty, else the environment's setting if set and non-empty, else    *)
(* the fallback ("iso", the host's timezone); the response is the one      *)
(* formatting with that pair gives.                                        *)
C1_Precedence ==
    IsTimeCall =>
        /\ last.format = Some(ByPrecedence(ArgOf("format"), env.DATETIME_FORMAT, Str_iso))
        /\ last.timezone = Some(ByPrecedence(ArgOf("timezone"), env.TIMEZONE, hostTimeZone))
        /\ last.completion =
              TryFormat(last.now,
                        ByPrecedence(ArgOf("format"), env.DATETIME_FORMAT, Str_iso),
                        ByPrecedence(ArgOf("timezone"), env.TIMEZONE, hostTimeZone))

\* An empty per-call format beside a set DATETIME_FORMAT, and no per-call
\* timezone beside an empty TIMEZONE: the setting and the host's zone are used.
C1_Witness ==
    /\ IsTimeCall
    /\ ArgOf("format") = Some(<< >>)
    /\ env.DATETIME_FORMAT = Some(Str_custom)
    /\ last.format = Some(Str_custom)
    /\ ArgOf("timezone") = Undefined
    /\ env.TIMEZONE = Some(<< >>)
    /\ last.timezone = Some(Str_Phoenix)

(* C2: a get_current_time request whose effective format is none of the   *)
(* seven selectors is answered, without an error, with exactly the string  *)
(* the iso selector gives for the instant, whatever the timezone is.       *)
C2_UnknownFormatIsIso ==
    (IsTimeCall /\ last.format[1] \notin KnownFormats) =>
        /\ Returned
        /\ ~Flagged
        /\ ResponseText = toISOString(last.now)
        /\ \A tz \in TimezoneValues :
              /\ formatDateTime(last.now, last.format[1], tz).type = "normal"
              /\ formatDateTime(last.now, last.format[1], tz)
                    = formatDateTime(last.now, Str_iso, tz)

C2_Witness ==
    /\ IsTimeCall
    /\ last.format = Some(Str_bogus)
    /\ last.timezone = Some(Str_NotAZone)
    /\ last.now = T_Doc
    /\ Returned
    /\ ResponseText = Str_DocIso

(* C3: for the selectors iso, unix and unix_ms the response is not an      *)
(* error and its text is the output for the instant under every timezone   *)
(* value, valid or not.                                                    *)
C3_TimezoneFree ==
    (IsTimeCall /\ last.format[1] \in TimezoneFreeFormats) =>
        /\ Returned
        /\ ~Flagged
        /\ \A tz \in TimezoneValues :
              formatDateTime(last.now, last.format[1], tz) = Normal(ResponseText)

C3_Witness ==
    /\ IsTimeCall
    /\ last.format = Some(Str_unix)
    /\ last.timezone = Some(Str_NotAZone)
    /\ last.now = T_Doc
    /\ Returned
    /\ ~Flagged
    /\ ResponseText = Str_DocUnix

(* C4: a get_current_time request whose effective format is human, date,   *)
(* time or custom and whose effective timezone the runtime does not        *)
(* recognize is answered with isError true and the text "Error formatting  *)
(* date: " followed by the cause's message; a response for a formatting    *)
(* that succeeded carries no error flag.                                   *)
C4_InvalidTimezoneIsError ==
    IsTimeCall =>
        /\ (last.format[1] \in TimezoneFormats /\ ~IsValidTimeZone(last.timezone[1])) =>
              /\ Returned
              /\ Flagged
              /\ ResponseText = Str_ErrorFormatting \o Str_InvalidTimeZone \o last.timezone[1]
        /\ (formatDateTime(last.now, last.format[1], last.timezone[1]).type = "normal") =>
              (Returned /\ ~Flagged)

C4_Witness ==
    /\ IsTimeCall
    /\ last.format = Some(Str_date)
    /\ last.timezone = Some(Str_NotAZone)
    /\ Returned
    /\ Flagged
    /\ ResponseText = Str_ErrorFormatting \o Str_InvalidTimeZone \o Str_NotAZone

(* C5: a tool call whose name is neither get_current_time nor              *)
(* get_timestamp returns isError true with the text "Unknown tool: <name>";*)
(* the handler does not throw, the server stays up and the next request    *)
(* can be handled.                                                         *)
C5_UnknownTool ==
    IsUnknownCall =>
        /\ Returned
        /\ Response = [content |-> TextContent(Str_UnknownTool \o last.name),
                       isError |-> TRUE]
        /\ faults = 0
        /\ phase = "running"
        /\ exitCode = Undefined
        /\ (received < MaxRequests => ENABLED Request)

C5_Witness ==
    /\ IsUnknownCall
    /\ last.name = Str_get_date
    /\ Flagged
    /\ received < MaxRequests
    /\ ENABLED Request

\* Every request delivered so far was answered, none threw, and a process
\* that has handled a request is running.
C6_State ==
    /\ answered = received
    /\ faults = 0
    /\ IsCall => (Returned /\ Len(Response.content) = 1)
    /\ received > 0 => (phase = "running" /\ exitCode = Undefined)
    /\ phase = "exited" <=> exitCode = Some(1)

\* The only step into the exited phase leaves startup; a request adds one
\* response; an exited process does nothing.
C6_Step ==
    /\ (phase' = "exited" /\ phase # "exited") => (phase = "starting" /\ received = 0)
    /\ received' # received => (received' = received + 1 /\ answered' = answered + 1)
    /\ phase = "exited" => UNCHANGED vars

(* C6: after any sequence of tool calls every request has produced exactly *)
(* one response, no handler has thrown and the process is still running;   *)
(* the process exits only from startup, when connecting the transport      *)
(* fails.                                                                  *)
C6_EveryRequestAnswered == [](C6_State) /\ [][C6_Step]_vars

\* Two requests, the second with a timezone that makes formatting fail.
C6_Witness ==
    /\ received = MaxRequests
    /\ answered = MaxRequests
    /\ IsTimeCall
    /\ last.format = Some(Str_time)
    /\ last.timezone = Some(Str_NotAZone)
    /\ Flagged

(* C7: a get_timestamp request returns, never as an error, the decimal     *)
(* epoch count of its instant: milliseconds when unit is "milliseconds",   *)
(* whole seconds (the floor of milliseconds / 1000) when unit is "seconds" *)
(* or absent, whatever format and timezone are configured or supplied.     *)
C7_Timestamp ==
    IsStampCall =>
        /\ Returned
        /\ ~Flagged
        /\ ArgOf("unit") = Some(Str_milliseconds) =>
              /\ ResponseText = TimeValueToString(last.now)
              /\ last.now = T_Doc => ResponseText = Str_DocUnixMs
              /\ last.now = T_PreEpoch => ResponseText = Str_PreEpochUnixMs
        /\ ArgOf("unit") \in {Undefined, Some(Str_seconds)} =>
              /\ ResponseText = IntToString(last.now.hi)
              /\ last.now = T_Doc => ResponseText = Str_DocUnix
              /\ last.now = T_PreEpoch => ResponseText = Str_PreEpochUnix

\* Seconds before the epoch, asked for beside a custom format and an
\* unrecognized timezone, under an unrecognized TIMEZONE.
C7_Witness ==
    /\ IsStampCall
    /\ ArgOf("unit") = Some(Str_seconds)
    /\ ArgOf("format") = Some(Str_custom)
    /\ ArgOf("timezone") = Some(Str_NotAZone)
    /\ env.TIMEZONE = Some(Str_NotAZone)
    /\ last.now = T_PreEpoch
    /\ ~Flagged
    /\ ResponseText = Str_PreEpochUnix


----------------------------------------------------------------------------
(* The server configured with DATETIME_FORMAT=custom, over every template  *)
(* of a bounded length: formatCustomDate applied to bounded inputs.        *)

\* The longest generated template.
MaxTemplateLen == 5

\* The longest generated template over the letters of all the tokens.
MaxShortTemplateLen == 3

TemplateAlphabet == {"Y", "M", "m", "-"}

TokenLetters == {"Y", "M", "D", "H", "m", "s", ":"}

GeneratedTemplates ==
    UNION {[1..k -> TemplateAlphabet] : k \in 0..MaxTemplateLen}
        \cup UNION {[1..k -> TokenLetters] : k \in 0..MaxShortTemplateLen}

Str_AllTokens == <<"s", "s", ":", "m", "m", ":", "H", "H", " ", "D", "D", ".", "M", "M", ".", "Y", "Y", " ", "Y", "Y", "Y", "Y", "Y", "Y">>

DocTemplates ==
    {Str_DefaultTemplate, Str_DocTemplate, Str_DMY, Str_YMD, Str_AllTokens}

Templates == GeneratedTemplates \cup DocTemplates

CustomEnvironments ==
    [DATETIME_FORMAT : {Some(Str_custom)},
     DATE_FORMAT_STRING : {Some(t) : t \in Templates},
     TIMEZONE : {Undefined, Some(Str_Tokyo)}]

InitCustom == Load(CustomEnvironments, HostTimeZones, Instants)

CustomArguments == {Undefined, Args(Undefined, Some(Str_UTC), Undefined)}

CustomRequest == \E a \in CustomArguments : CallTool(Str_get_current_time, a)

NextCustom == Connect \/ CustomRequest

SpecCustom == InitCustom /\ [][NextCustom]_vars

\* The recognized tokens, the longer year token first.
TokenList == <<Str_YYYY, Str_YY, Str_MM, Str_DD, Str_HH, Str_mm, Str_ss>>

\* The index of the token a string starts with, 0 if it starts with none.
TokenAt(s) ==
    IF \E i \in 1..Len(TokenList) : StartsWith(s, TokenList[i])
    THEN CHOOSE i \in 1..Len(TokenList) :
            /\ StartsWith(s, TokenList[i])
            /\ \A j \in 1..(i - 1) : ~StartsWith(s, TokenList[j])
    ELSE 0

HasToken(s) == \E k \in 1..Len(s) : TokenAt(SubSeq(s, k, Len(s))) # 0

\* A get_current_time request was formatted with the custom selector.
CustomDone ==
    /\ IsTimeCall
    /\ last.format = Some(Str_custom)
    /\ Returned
    /\ ~Flagged

\* The components of the request's instant in its timezone, in the order of
\* TokenList, as Intl gives them.
ComponentsOf(m) ==
    << m["year"], SubSeq(m["year"], Len(m["year"]) - 1, Len(m["year"])),
       m["month"], m["day"], m["hour"], m["minute"], m["second"] >>

LastComponents ==
    ComponentsOf(PartsMapOf(formatToParts(last.now, last.timezone[1])))

\* The year of the request's instant in its timezone, from the calendar.
LastYear == NatToString(FieldsAt(last.now, TimeZoneOffset(last.timezone[1])).year)

\* Reading the template left to right, the output holds, for each token
\* occurrence, that token's component.
RECURSIVE TokensRendered(_, _, _)
TokensRendered(t, out, comp) ==
    IF t = << >> THEN out = << >>
    ELSE IF TokenAt(t) = 0
         THEN Len(out) >= 1 /\ TokensRendered(Tail(t), Tail(out), comp)
         ELSE /\ StartsWith(out, comp[TokenAt(t)])
              /\ TokensRendered(Drop(t, Len(TokenList[TokenAt(t)])),
                                Drop(out, Len(comp[TokenAt(t)])), comp)

\* Reading the template left to right, the output holds each character
\* outside the token occurrences, unchanged, at its place.
RECURSIVE LiteralsKept(_, _, _)
LiteralsKept(t, out, comp) ==
    IF t = << >> THEN out = << >>
    ELSE IF TokenAt(t) = 0
         THEN /\ Len(out) >= 1
              /\ Head(out) = Head(t)
              /\ LiteralsKept(Tail(t), Tail(out), comp)
         ELSE /\ Len(out) >= Len(comp[TokenAt(t)])
              /\ LiteralsKept(Drop(t, Len(TokenList[TokenAt(t)])),
                              Drop(out, Len(comp[TokenAt(t)])), comp)

\* Reading the template left to right, the output holds the four-digit year
\* for each YYYY, and not the two-digit year twice.
RECURSIVE FullYears(_, _, _, _)
FullYears(t, out, comp, year) ==
    IF t = << >> THEN TRUE
    ELSE IF TokenAt(t) = 0 THEN FullYears(Tail(t), Tail(out), comp, year)
    ELSE /\ TokenAt(t) = 1 =>
              /\ Len(year) = 4
              /\ StartsWith(out, year)
              /\ ~StartsWith(out, SubSeq(year, 3, 4) \o SubSeq(year, 3, 4))
         /\ FullYears(Drop(t, Len(TokenList[TokenAt(t)])),
                      Drop(out, Len(comp[TokenAt(t)])), comp, year)

Str_DocCustom == <<"2", "0", "2", "4", "/", "0", "1", "/", "1", "5", " ", "1", "0", ":", "3", "0">>

Str_DocDefaultTokyo == <<"2", "0", "2", "4", "-", "0", "1", "-", "1", "5", " ", "1", "9", ":", "3", "0", ":", "0", "0">>

(* C8: formatCustomDate replaces every occurrence of each token by the     *)
(* component of the instant in the target timezone (YYYY the year, YY the  *)
(* year's last two characters, MM, DD, HH, mm, ss the month, day, hour,    *)
(* minute, second) and leaves no token in the output.                      *)
C8_TokensReplaced ==
    CustomDone =>
        /\ TokensRendered(DATE_FORMAT_STRING, ResponseText, LastComponents)
        /\ ~HasToken(ResponseText)
        /\ (DATE_FORMAT_STRING = Str_DocTemplate /\ last.now = T_Doc
              /\ last.timezone = Some(Str_UTC)) => ResponseText = Str_DocCustom

\* The default template, which holds six of the tokens, at the documented
\* instant in Asia/Tokyo.
C8_Witness ==
    /\ CustomDone
    /\ DATE_FORMAT_STRING = Str_DefaultTemplate
    /\ last.now = T_Doc
    /\ last.timezone = Some(Str_Tokyo)
    /\ ResponseText = Str_DocDefaultTokyo

(* C9: in the output of formatCustomDate every template character outside *)
(* the token occurrences stands unchanged and in its order; a template     *)
(* without a token is returned as it is.                                   *)
C9_LiteralsVerbatim ==
    CustomDone =>
        /\ LiteralsKept(DATE_FORMAT_STRING, ResponseText, LastComponents)
        /\ ~HasToken(DATE_FORMAT_STRING) => ResponseText = DATE_FORMAT_STRING

\* A lone m, a separator and a lone Y around one MM.
C9_Witness ==
    /\ CustomDone
    /\ DATE_FORMAT_STRING = <<"m", "-", "M", "M", "Y">>
    /\ last.now = T_Doc
    /\ ResponseText = <<"m", "-", "0", "1", "Y">>

(* C10: every YYYY of the template yields the four-digit year, never the   *)
(* two-digit year twice: YYYY is substituted before YY.                    *)
C10_LongYearFirst ==
    CustomDone =>
        FullYears(DATE_FORMAT_STRING, ResponseText, LastComponents, LastYear)

\* Five Y: one YYYY and a Y that is left as it is.
C10_Witness ==
    /\ CustomDone
    /\ DATE_FORMAT_STRING = <<"Y", "Y", "Y", "Y", "Y">>
    /\ last.now = T_Doc
    /\ ResponseText = <<"2", "0", "2", "4", "Y">>


----------------------------------------------------------------------------
(* The formatting engine over a spread of instants and valid timezones:    *)
(* get_current_time with each selector, read at clocks that cover          *)
(* midnight, noon, a leap day, a year's last millisecond, the epoch and    *)
(* instants before it.                                                     *)

\* The number of steps of the generated grid of instants.
MaxGridSteps == 8

\* A grid from 2024-02-28T00:00:00.000Z in steps of 8 h 53 min 23.137 s: it
\* walks through the hours, minutes and seconds around a leap day.
GridInstants ==
    {[hi |-> 1709078400 + k * 32003, lo |-> (k * 137) % 1000] :
        k \in 0..MaxGridSteps}

FormatInstants ==
    Instants \cup GridInstants
        \cup { [hi |-> 0, lo |-> 0],             \* 1970-01-01T00:00:00.000Z
               [hi |-> 0, lo |-> 7],             \* 1970-01-01T00:00:00.007Z
               [hi |-> 1, lo |-> 5],             \* 1970-01-01T00:00:01.005Z
               [hi |-> 0 - 86400, lo |-> 0],     \* 1969-12-31T00:00:00.000Z
               [hi |-> 0 - 1, lo |-> 999],       \* 1969-12-31T23:59:59.999Z
               [hi |-> 1704067200, lo |-> 0],    \* 2024-01-01T00:00:00.000Z
               [hi |-> 1704067199, lo |-> 999],  \* 2023-12-31T23:59:59.999Z
               [hi |-> 1720094400, lo |-> 0],    \* 2024-07-04T12:00:00.000Z
               [hi |-> 951827696, lo |-> 789] }  \* 2000-02-29T12:34:56.789Z

FormatEnvironments ==
    [DATETIME_FORMAT : {Undefined}, DATE_FORMAT_STRING : {Undefined},
     TIMEZONE : {Undefined, Some(Str_Tokyo)}]

InitFormat == Load(FormatEnvironments, HostTimeZones, FormatInstants)

\* Format values that are no selector but look like one: other letter case,
\* a blank after or before.
NearSelectors ==
    { Str_UNIX, <<"D", "a", "t", "e">>, <<"u", "n", "i", "x", " ">>,
      <<" ", "t", "i", "m", "e">>, <<"I", "S", "O">> }

FormatArguments ==
    {Args(Some(f), z, Undefined) :
        f \in KnownFormats \cup NearSelectors, z \in {Undefined, Some(Str_UTC)}}

\* Unit values: the two of the schema, none, the empty string, and strings
\* that are not "milliseconds".
FormatUnits ==
    ArgUnits \cup { Some(<<"M", "i", "l", "l", "i", "s", "e", "c", "o", "n", "d", "s">>),
                    Some(<<"m", "s">>) }

FormatStampArguments == {Undefined} \cup {Args(Undefined, Undefined, u) : u \in FormatUnits}

FormatRequest ==
    \/ \E a \in FormatArguments : CallTool(Str_get_current_time, a)
    \/ \E a \in FormatStampArguments : CallTool(Str_get_timestamp, a)

NextFormat == Connect \/ FormatRequest

SpecFormat == InitFormat /\ [][NextFormat]_vars

\* A get_current_time request with this selector and a timezone the runtime
\* knows was answered.
Rendered(format) ==
    /\ IsTimeCall
    /\ last.format = Some(format)
    /\ IsValidTimeZone(last.timezone[1])
    /\ Returned
    /\ ~Flagged

\* The calendar and clock fields of the request's instant in its timezone.
LastFields == FieldsAt(last.now, TimeZoneOffset(last.timezone[1]))

DigitValueOf ==
    ("0" :> 0) @@ ("1" :> 1) @@ ("2" :> 2) @@ ("3" :> 3) @@ ("4" :> 4)
    @@ ("5" :> 5) @@ ("6" :> 6) @@ ("7" :> 7) @@ ("8" :> 8) @@ ("9" :> 9)

AllDigits(s) == \A i \in 1..Len(s) : s[i] \in DOMAIN DigitValueOf

\* The number a string of decimal digits denotes.
RECURSIVE StringToNat(_)
StringToNat(s) ==
    IF s = << >> THEN 0
    ELSE StringToNat(SubSeq(s, 1, Len(s) - 1)) * 10 + DigitValueOf[s[Len(s)]]

\* s is exactly width decimal digits and denotes n, which lies in low..high.
IsPadded(s, width, n, low, high) ==
    /\ Len(s) = width
    /\ AllDigits(s)
    /\ StringToNat(s) = n
    /\ n \in low..high

\* The characters of s from position a to position b, empty when s is short.
Field(s, a, b) == IF Len(s) >= b THEN SubSeq(s, a, b) ELSE << >>

Str_DocTime == <<"1", "0", ":", "3", "0", ":", "0", "0">>

(* C11: the components formatCustomDate substitutes for an instant in a    *)
(* valid timezone are the four-digit year, and two digits each for the     *)
(* month in 01..12, the day in 01..31, the hour in 00..23 (00 at midnight, *)
(* never 24), the minute in 00..59 and the second in 00..59 of that        *)
(* instant in that timezone; the default template shows them in place.     *)
C11_ComponentRanges ==
    Rendered(Str_custom) =>
        /\ IsPadded(LastComponents[1], 4, LastFields.year, 0, 9999)
        /\ IsPadded(LastComponents[3], 2, LastFields.month, 1, 12)
        /\ IsPadded(LastComponents[4], 2, LastFields.day, 1, 31)
        /\ IsPadded(LastComponents[5], 2, LastFields.hour, 0, 23)
        /\ IsPadded(LastComponents[6], 2, LastFields.minute, 0, 59)
        /\ IsPadded(LastComponents[7], 2, LastFields.second, 0, 59)
        /\ DATE_FORMAT_STRING = Str_DefaultTemplate =>
              /\ Len(ResponseText) = 19
              /\ IsPadded(Field(ResponseText, 12, 13), 2, LastFields.hour, 0, 23)

(* C12: the time selector returns, for an instant in a valid timezone,     *)
(* exactly HH:MM:SS: the hour in 00..23, the minute and the second in      *)
(* 00..59 of the instant in that timezone, two digits each, and nothing    *)
(* else; 2024-01-15T10:30:00.000Z in UTC gives "10:30:00".                 *)
C12_TimeSelector ==
    Rendered(Str_time) =>
        /\ Len(ResponseText) = 8
        /\ IsPadded(Field(ResponseText, 1, 2), 2, LastFields.hour, 0, 23)
        /\ Field(ResponseText, 3, 3) = <<":">>
        /\ IsPadded(Field(ResponseText, 4, 5), 2, LastFields.minute, 0, 59)
        /\ Field(ResponseText, 6, 6) = <<":">>
        /\ IsPadded(Field(ResponseText, 7, 8), 2, LastFields.second, 0, 59)
        /\ (last.now = T_Doc /\ last.timezone = Some(Str_UTC)) =>
              ResponseText = Str_DocTime

\* The count of days from 1970-01-01 to a proleptic Gregorian date: the day
\* of the year counted from 1 March, within the 400-year era of the year.
DayFromMarch(m, d) == (153 * (IF m > 2 THEN m - 3 ELSE m + 9) + 2) \div 5 + d - 1

DaysOfEra(era, yoe, doy) ==
    era * 146097 + yoe * 365 + yoe \div 4 - yoe \div 100 + doy - 719468

DaysOfYear(y, doy) == DaysOfEra(y \div 400, y % 400, doy)

DaysFromCivil(y, m, d) ==
    DaysOfYear(IF m <= 2 THEN y - 1 ELSE y, DayFromMarch(m, d))

\* The day, counted from 1970-01-01, the request's instant falls on in the
\* request's timezone, and the same in UTC.
LastLocalDay == (last.now.hi + TimeZoneOffset(last.timezone[1])) \div SecondsPerDay

LastUtcDay == last.now.hi \div SecondsPerDay

Str_DocDate == <<"2", "0", "2", "4", "-", "0", "1", "-", "1", "5">>

Str_LeapDay == <<"2", "0", "2", "4", "-", "0", "2", "-", "2", "9">>

Str_DayAfterLeapDay == <<"2", "0", "2", "4", "-", "0", "3", "-", "0", "1">>

(* C13: the date selector returns, for an instant in a valid timezone,     *)
(* exactly YYYY-MM-DD, month and day zero-padded, and that date is the     *)
(* calendar date of the instant in that timezone, not in UTC;              *)
(* 2024-01-15T10:30:00.000Z in UTC gives "2024-01-15", and an instant late *)
(* in the UTC day gives the next day in a zone ahead of UTC.               *)
C13_DateSelector ==
    Rendered(Str_date) =>
        /\ Len(ResponseText) = 10
        /\ IsPadded(Field(ResponseText, 1, 4), 4, LastFields.year, 0, 9999)
        /\ Field(ResponseText, 5, 5) = <<"-">>
        /\ IsPadded(Field(ResponseText, 6, 7), 2, LastFields.month, 1, 12)
        /\ Field(ResponseText, 8, 8) = <<"-">>
        /\ IsPadded(Field(ResponseText, 9, 10), 2, LastFields.day, 1, 31)
        /\ DaysFromCivil(StringToNat(Field(ResponseText, 1, 4)),
                         StringToNat(Field(ResponseText, 6, 7)),
                         StringToNat(Field(ResponseText, 9, 10))) = LastLocalDay
        /\ (last.now = T_Doc /\ last.timezone = Some(Str_UTC)) =>
              ResponseText = Str_DocDate
        /\ (last.now = T_TokyoMidnight /\ last.timezone = Some(Str_UTC)) =>
              ResponseText = Str_LeapDay

\* 2024-02-29T15:00:00.000Z is 1 March in Asia/Tokyo.
C13_Witness ==
    /\ Rendered(Str_date)
    /\ last.now = T_TokyoMidnight
    /\ last.timezone = Some(Str_Tokyo)
    /\ LastLocalDay = LastUtcDay + 1
    /\ ResponseText = Str_DayAfterLeapDay

\* The position after the first occurrence of p in s at or after position
\* k, 0 if there is none or k is 0.
After(s, p, k) ==
    IF k # 0 /\ \E i \in k..(Len(s) - Len(p) + 1) : SubSeq(s, i, i + Len(p) - 1) = p
    THEN Len(p) + CHOOSE i \in k..(Len(s) - Len(p) + 1) :
            /\ SubSeq(s, i, i + Len(p) - 1) = p
            /\ \A j \in k..(i - 1) : SubSeq(s, j, j + Len(p) - 1) # p
    ELSE 0

\* The position after the pieces ps found in s one after the other from
\* position k, 0 if they are not all there in that order.
RECURSIVE AfterAll(_, _, _)
AfterAll(s, ps, k) ==
    IF ps = << >> THEN k ELSE AfterAll(s, Tail(ps), After(s, Head(ps), k))

\* The hour of the 12-hour clock, 1..12.
ClockHour(h) == ((h + 11) % 12) + 1

Str_AM == <<"A", "M">>

Str_PM == <<"P", "M">>

\* What the human selector is to show of the calendar and clock fields f.
HumanPieces(f) ==
    << WeekdayShort[f.weekday + 1], MonthShort[f.month], NatToString(f.day),
       Pad4(f.year),
       Pad2(ClockHour(f.hour)) \o <<":">> \o Pad2(f.minute) \o <<":">> \o Pad2(f.second),
       IF f.hour < 12 THEN Str_AM ELSE Str_PM >>

Str_TokyoMidnightHuman == <<"F", "r", "i", ",", " ", "M", "a", "r", " ", "1", ",", " ", "2", "0", "2", "4", ",", " ", "1", "2", ":", "0", "0", ":", "0", "0">>

(* C14: the human selector returns, for an instant in a valid timezone, a  *)
(* string that holds in this order the abbreviated weekday, the            *)
(* abbreviated month, the day of the month, the four-digit year, the time  *)
(* on the 12-hour clock (hour 01..12) and AM or PM, all of the instant in  *)
(* that timezone; the marker ends the string.                              *)
C14_HumanSelector ==
    Rendered(Str_human) =>
        /\ LastFields.weekday = (LastLocalDay + 4) % 7
        /\ ClockHour(LastFields.hour) \in 1..12
        /\ AfterAll(ResponseText, HumanPieces(LastFields), 1) = Len(ResponseText) + 1

\* Midnight of Friday 2024-03-01 in Asia/Tokyo: 12 AM, while UTC is still at
\* 3 PM of Thursday.
C14_Witness ==
    /\ Rendered(Str_human)
    /\ last.now = T_TokyoMidnight
    /\ last.timezone = Some(Str_Tokyo)
    /\ StartsWith(ResponseText, Str_TokyoMidnightHuman)
    /\ After(ResponseText, Str_AM, 1) = Len(ResponseText) + 1

\* The integer a decimal string denotes, with its sign.
StringToInt(s) ==
    IF s # << >> /\ Head(s) = "-" THEN 0 - StringToNat(Tail(s)) ELSE StringToNat(s)

\* s is the decimal notation of an integer: a sign only before a non-zero
\* number, no leading zero.
IsDecimalMagnitude(negative, d) ==
    /\ d # << >>
    /\ AllDigits(d)
    /\ Len(d) > 1 => d[1] # "0"
    /\ negative => d # <<"0">>

IsDecimal(s) ==
    /\ s # << >>
    /\ IF Head(s) = "-" THEN IsDecimalMagnitude(TRUE, Tail(s))
       ELSE IsDecimalMagnitude(FALSE, s)

\* The order of time values.
TimeLeq(a, b) == a.hi < b.hi \/ (a.hi = b.hi /\ a.lo <= b.lo)

TimeLess(a, b) == a.hi < b.hi \/ (a.hi = b.hi /\ a.lo < b.lo)

\* The time value of a whole number of seconds.
Seconds(n) == [hi |-> n, lo |-> 0]

\* milliseconds / 1000 with the fraction cut off.
TruncatedSeconds(t) == IF t.hi < 0 /\ t.lo > 0 THEN t.hi + 1 ELSE t.hi

\* The time value whose magnitude is high * 1000 + low milliseconds.
SignedTimeValue(negative, high, low) ==
    IF ~negative THEN [hi |-> high, lo |-> low]
    ELSE IF low = 0 THEN [hi |-> 0 - high, lo |-> 0]
    ELSE [hi |-> 0 - high - 1, lo |-> 1000 - low]

\* The time value a string of decimal digits denotes, in milliseconds.
DigitsToTimeValue(negative, d) ==
    IF Len(d) <= 3 THEN SignedTimeValue(negative, 0, StringToNat(d))
    ELSE SignedTimeValue(negative, StringToNat(SubSeq(d, 1, Len(d) - 3)),
                         StringToNat(SubSeq(d, Len(d) - 2, Len(d))))

\* The time value a decimal string of milliseconds denotes.
StringToTimeValue(s) ==
    IF s # << >> /\ Head(s) = "-" THEN DigitsToTimeValue(TRUE, Tail(s))
    ELSE DigitsToTimeValue(FALSE, s)

\* The decimal notation of a thousand times the integer s denotes.
TimesThousand(s) == IF StringToInt(s) = 0 THEN s ELSE s \o <<"0", "0", "0">>

\* C17 as stated: the unix selector truncates milliseconds / 1000 toward
\* zero, also before the epoch.
C17_TruncatesTowardZero ==
    Rendered(Str_unix) =>
        ResponseText = IntToString(TruncatedSeconds(last.now))

(* C17, amended: for every instant the unix selector returns the decimal   *)
(* string of floor(milliseconds / 1000), the whole seconds n with          *)
(* n * 1000 <= milliseconds < (n + 1) * 1000; from the epoch on this is    *)
(* the truncation toward zero, before it the truncation less one unless    *)
(* the instant is on a whole second.                                       *)
C17_FloorsSeconds ==
    Rendered(Str_unix) =>
        /\ IsDecimal(ResponseText)
        /\ TimeLeq(Seconds(StringToInt(ResponseText)), last.now)
        /\ TimeLess(last.now, Seconds(StringToInt(ResponseText) + 1))
        /\ TimeLeq(Seconds(0), last.now) =>
              ResponseText = IntToString(TruncatedSeconds(last.now))
        /\ (TimeLess(last.now, Seconds(0)) /\ last.now.lo # 0) =>
              ResponseText = IntToString(TruncatedSeconds(last.now) - 1)
        /\ last.now = T_Doc => ResponseText = Str_DocUnix

\* 1500 ms before the epoch: -2, where the truncation is -1.
C17_Witness ==
    /\ Rendered(Str_unix)
    /\ last.now = T_PreEpoch
    /\ ResponseText = Str_PreEpochUnix
    /\ TruncatedSeconds(last.now) = 0 - 1

\* The outputs of the unix and the unix_ms selector for the request's
\* instant: the response, and what the other selector gives.
UnixText ==
    IF last.format = Some(Str_unix) THEN ResponseText
    ELSE formatDateTime(last.now, Str_unix, last.timezone[1]).value

UnixMsText ==
    IF last.format = Some(Str_unix_ms) THEN ResponseText
    ELSE formatDateTime(last.now, Str_unix_ms, last.timezone[1]).value

(* C18: for every instant the outputs of the unix and the unix_ms          *)
(* selector, read as decimal numbers, satisfy unix = floor(unix_ms / 1000),*)
(* and unix_ms = unix * 1000 when the instant is on a whole second.        *)
C18_UnixAndUnixMs ==
    (Rendered(Str_unix) \/ Rendered(Str_unix_ms)) =>
        /\ IsDecimal(UnixText)
        /\ IsDecimal(UnixMsText)
        /\ StringToTimeValue(UnixMsText) = last.now
        /\ StringToInt(UnixText) = StringToTimeValue(UnixMsText).hi
        /\ StringToTimeValue(UnixMsText).lo = 0 => UnixMsText = TimesThousand(UnixText)
        /\ StringToTimeValue(UnixMsText).lo # 0 => UnixMsText # TimesThousand(UnixText)

\* 1500 ms before the epoch: "-1500" and "-2".
C18_Witness ==
    /\ Rendered(Str_unix_ms)
    /\ last.now = T_PreEpoch
    /\ ResponseText = Str_PreEpochUnixMs
    /\ UnixText = Str_PreEpochUnix

\* The time value an ISO 8601 timestamp YYYY-MM-DDTHH:mm:ss.sssZ denotes.
ParseIso(s) ==
    [hi |-> DaysFromCivil(StringToNat(Field(s, 1, 4)), StringToNat(Field(s, 6, 7)),
                          StringToNat(Field(s, 9, 10))) * SecondsPerDay
            + StringToNat(Field(s, 12, 13)) * 3600
            + StringToNat(Field(s, 15, 16)) * 60
            + StringToNat(Field(s, 18, 19)),
     lo |-> StringToNat(Field(s, 21, 23))]

\* s has the shape YYYY-MM-DDTHH:mm:ss.sssZ.
IsIsoShaped(s) ==
    /\ Len(s) = 24
    /\ AllDigits(Field(s, 1, 4) \o Field(s, 6, 7) \o Field(s, 9, 10)
                 \o Field(s, 12, 13) \o Field(s, 15, 16) \o Field(s, 18, 19)
                 \o Field(s, 21, 23))
    /\ <<s[5], s[8], s[11], s[14], s[17], s[20], s[24]>>
          = <<"-", "-", "T", ":", ":", ".", "Z">>
    /\ StringToNat(Field(s, 6, 7)) \in 1..12
    /\ StringToNat(Field(s, 9, 10)) \in 1..31
    /\ StringToNat(Field(s, 12, 13)) \in 0..23
    /\ StringToNat(Field(s, 15, 16)) \in 0..59
    /\ StringToNat(Field(s, 18, 19)) \in 0..59

Str_PreEpochIso == <<"1", "9", "6", "9", "-", "1", "2", "-", "3", "1", "T", "2", "3", ":", "5", "9", ":", "5", "8", ".", "5", "0", "0", "Z">>

(* C19: the iso selector returns a timestamp YYYY-MM-DDTHH:mm:ss.sssZ, at  *)
(* offset zero whatever the timezone, that parsed back as ISO 8601 is the  *)
(* instant to the millisecond; 2024-01-15T10:30:00.000Z renders as         *)
(* "2024-01-15T10:30:00.000Z".                                             *)
C19_IsoRoundTrip ==
    Rendered(Str_iso) =>
        /\ IsIsoShaped(ResponseText)
        /\ ParseIso(ResponseText) = last.now
        /\ last.now = T_Doc => ResponseText = Str_DocIso

\* Half a second into a second before the epoch, asked for in Asia/Tokyo.
C19_Witness ==
    /\ Rendered(Str_iso)
    /\ last.now = T_PreEpoch
    /\ last.timezone = Some(Str_Tokyo)
    /\ ResponseText = Str_PreEpochIso
    /\ ParseIso(ResponseText) = T_PreEpoch

----------------------------------------------------------------------------
(* Where the template of the custom selector comes from. *)

\* Values DATE_FORMAT_STRING can hold.
AltTemplates == {Str_DefaultTemplate, Str_DocTemplate, Str_DMY}

\* The response to the latest request of a process that differs in the value
\* of DATE_FORMAT_STRING only.
ResponseUnder(template) ==
    ResultOrCaught(SwitchWith(last.now, last.format[1], last.timezone[1], template))

\* Arguments a resolve to the latest request's format and timezone.
SameSelection(a) ==
    /\ Some(ResolveFormat(a)) = last.format
    /\ Some(ResolveTimezone(a)) = last.timezone

Str_DocDMY == <<"1", "5", "/", "0", "1", "/", "2", "0", "2", "4">>

(* C15: the template of the custom selector is DATE_FORMAT_STRING of the   *)
(* environment, or "YYYY-MM-DD HH:mm:ss": a get_current_time request with  *)
(* format custom is answered by rendering that template, and every request *)
(* with format custom, the same timezone and the same instant gets the     *)
(* same response, whatever else its arguments carry.                       *)
C15_TemplateFromConfig ==
    (IsTimeCall /\ last.format = Some(Str_custom)) =>
        /\ last.completion =
              ResultOrCaught(formatCustomDate(last.now,
                                 ByPrecedence(Undefined, env.DATE_FORMAT_STRING,
                                              Str_DefaultTemplate),
                                 last.timezone[1]))
        /\ \A a \in TimeArguments \cup TemplateArguments :
              SameSelection(a) =>
                 CallToolHandler(Str_get_current_time, a, last.now).completion
                    = last.completion

\* A request that carries a template of its own is rendered with the
\* process-wide one.
C15_Witness ==
    /\ IsTimeCall
    /\ last.format = Some(Str_custom)
    /\ last.args # Undefined
    /\ "formatString" \in DOMAIN last.args[1]
    /\ last.args[1].formatString = Some(Str_DMY)
    /\ env.DATE_FORMAT_STRING = Some(Str_DocTemplate)
    /\ last.now = T_Doc
    /\ Returned
    /\ ResponseText = Str_DocCustom
    /\ ResponseText # Str_DocDMY

----------------------------------------------------------------------------
(* A TIMEZONE the runtime does not recognize. *)

(* C20: with an unrecognized TIMEZONE in the environment the server starts *)
(* as with any other and answers every request; get_timestamp requests and *)
(* get_current_time requests whose selector does not consult the timezone  *)
(* succeed, and a get_current_time response is the formatting error        *)
(* exactly when its selector consults the timezone and the timezone it     *)
(* resolves to is not recognized.                                          *)
C20_InvalidTimezoneAtRequestTime ==
    ~IsValidTimeZone(TIMEZONE) =>
        /\ phase = "starting" => (exitCode = Undefined /\ ENABLED Connect)
        /\ phase = "exited" => received = 0
        /\ IsCall => (Returned /\ phase = "running" /\ exitCode = Undefined)
        /\ IsStampCall => ~Flagged
        /\ IsTimeCall =>
              /\ ~Present(ArgOf("timezone")) => last.timezone = Some(TIMEZONE)
              /\ Flagged <=> (/\ last.format[1] \in TimezoneFormats
                              /\ ~IsValidTimeZone(last.timezone[1]))
              /\ Flagged =>
                    ResponseText
                       = Str_ErrorFormatting \o Str_InvalidTimeZone \o last.timezone[1]

\* Under TIMEZONE=Not/AZone the server has answered its requests, the latest
\* one for unix_ms without a timezone of its own.
C20_Witness ==
    /\ env.TIMEZONE = Some(Str_NotAZone)
    /\ TIMEZONE = Str_NotAZone
    /\ phase = "running"
    /\ received = MaxRequests
    /\ answered = MaxRequests
    /\ IsTimeCall
    /\ ArgOf("timezone") = Undefined
    /\ last.timezone = Some(Str_NotAZone)
    /\ last.format = Some(Str_unix_ms)
    /\ last.now = T_Doc
    /\ ~Flagged
    /\ ResponseText = Str_DocUnixMs

----------------------------------------------------------------------------
(* The tool-call handler in steps: several invocations are in flight, the  *)
(* clock moves while they run, and their steps interleave in every order.  *)

StepEnvironments ==
    [DATETIME_FORMAT : {Undefined}, DATE_FORMAT_STRING : {Undefined},
     TIMEZONE : {Undefined, Some(Str_NotAZone)}]

InitSteps == Load(StepEnvironments, HostTimeZones, Instants)

StepRequests ==
    { <<Str_get_current_time, Undefined>>,
      <<Str_get_current_time, Args(Some(Str_custom), Some(Str_UTC), Undefined)>>,
      <<Str_get_current_time, Args(Some(Str_date), Undefined, Undefined)>>,
      <<Str_get_timestamp, Args(Undefined, Undefined, Some(Str_milliseconds))>>,
      <<Str_get_date, Undefined>> }

\* const { name, arguments: args } = request.params
Enter(i, name, args) ==
    /\ phase = "running"
    /\ received < MaxRequests
    /\ inflight[i] = Idle
    /\ inflight' = [inflight EXCEPT ![i] = [pc |-> "entered", name |-> name,
                                           args |-> args]]
    /\ received' = received + 1
    /\ UNCHANGED <<config, phase, exitCode, clock, answered, faults, last>>

\* const now = new Date(), in the branch of either tool.
ReadClock(i) ==
    /\ inflight[i].pc = "entered"
    /\ inflight[i].name \in {Str_get_current_time, Str_get_timestamp}
    /\ inflight' = [inflight EXCEPT ![i] = [pc |-> "captured",
                                           name |-> inflight[i].name,
                                           args |-> inflight[i].args,
                                           now |-> clock]]
    /\ UNCHANGED <<config, phase, exitCode, clock, counters, last>>

\* The local now of invocation i; the branch of an unknown tool has none and
\* uses none.
SlotInstant(i) == IF inflight[i].pc = "captured" THEN inflight[i].now ELSE clock

\* A handler that reads the clock again when it builds the response.
CapturedInstant_Reread(i) == clock

\* A handler that keeps now in a variable of the module, which the
\* invocation that read the clock last has overwritten.
CapturedInstant_Shared(i) ==
    IF \E j \in 1..MaxInFlight : j # i /\ inflight[j].pc = "captured"
    THEN inflight[CHOOSE j \in 1..MaxInFlight :
                      j # i /\ inflight[j].pc = "captured"].now
    ELSE SlotInstant(i)

\* The instant the invocation formats: its local now.
CapturedInstant(i) == SlotInstant(i)

\* The rest of the handler: the response is built and returned.
Return(i) ==
    /\ \/ inflight[i].pc = "captured"
       \/ /\ inflight[i].pc = "entered"
          /\ inflight[i].name \notin {Str_get_current_time, Str_get_timestamp}
    /\ last' = Handled(inflight[i].name, inflight[i].args, SlotInstant(i),
                       CallToolHandler(inflight[i].name, inflight[i].args,
                                       CapturedInstant(i)))
    /\ answered' = answered + (IF last'.completion.type = "normal" THEN 1 ELSE 0)
    /\ faults' = faults + (IF last'.completion.type = "throw" THEN 1 ELSE 0)
    /\ inflight' = [inflight EXCEPT ![i] = Idle]
    /\ UNCHANGED <<config, phase, exitCode, clock, received>>

Delivery == \E i \in 1..MaxInFlight : \E r \in StepRequests : Enter(i, r[1], r[2])

HandlerStep == \E i \in 1..MaxInFlight : ReadClock(i) \/ Return(i)

NextSteps == Connect \/ Tick \/ Delivery \/ HandlerStep

SpecSteps == InitSteps /\ [][NextSteps]_vars

Str_DocDefaultUtc == <<"2", "0", "2", "4", "-", "0", "1", "-", "1", "5", " ", "1", "0", ":", "3", "0", ":", "0", "0">>

\* The response of a custom request shows, at the places of the default
\* template, the calendar and clock fields f.
ShowsFields(text, f) ==
    /\ StringToNat(Field(text, 1, 4)) = f.year
    /\ StringToNat(Field(text, 6, 7)) = f.month
    /\ StringToNat(Field(text, 9, 10)) = f.day
    /\ StringToNat(Field(text, 12, 13)) % 24 = f.hour
    /\ StringToNat(Field(text, 15, 16)) = f.minute
    /\ StringToNat(Field(text, 18, 19)) = f.second

(* C22: every field of a response is that of the one instant the handler   *)
(* read from the clock before formatting, whatever the clock shows when    *)
(* the response is built: the iso string and the millisecond count read    *)
(* back as that instant, and year, month, day, hour, minute and second of  *)
(* a custom or date response are its fields in the request's timezone.     *)
C22_SingleInstant ==
    (IsCall /\ Returned /\ ~Flagged) =>
        /\ (IsTimeCall /\ last.format = Some(Str_iso)) =>
              ParseIso(ResponseText) = last.now
        /\ (IsTimeCall /\ last.format = Some(Str_custom)) =>
              ShowsFields(ResponseText, LastFields)
        /\ (IsTimeCall /\ last.format = Some(Str_date)) =>
              DaysFromCivil(StringToNat(Field(ResponseText, 1, 4)),
                            StringToNat(Field(ResponseText, 6, 7)),
                            StringToNat(Field(ResponseText, 9, 10))) = LastLocalDay
        /\ IsStampCall => StringToTimeValue(ResponseText) = last.now

\* The clock has moved on between the reading and the response.
C22_Witness ==
    /\ IsTimeCall
    /\ last.format = Some(Str_custom)
    /\ last.now = T_Doc
    /\ clock = T_PreEpoch
    /\ Returned
    /\ ResponseText = Str_DocDefaultUtc

(* C24: whatever the interleaving of the invocations in flight, a response *)
(* is the one the handler gives for the request's arguments and the        *)
(* instant the invocation read when it runs alone and to completion; an    *)
(* invocation in flight holds the request it was entered with.             *)
C24_Independent ==
    /\ IsCall =>
          /\ <<last.name, last.args>> \in StepRequests
          /\ last.completion
                = CallToolHandler(last.name, last.args, last.now).completion
    /\ \A i \in 1..MaxInFlight :
          inflight[i] # Idle =>
             <<inflight[i].name, inflight[i].args>> \in StepRequests

\* A response was returned while another invocation, which has read another
\* instant, is still in flight.
C24_Witness ==
    /\ IsTimeCall
    /\ Returned
    /\ last.now = T_Doc
    /\ \E j \in 1..MaxInFlight :
          /\ inflight[j].pc = "captured"
          /\ inflight[j].name = Str_get_timestamp
          /\ inflight[j].now = T_PreEpoch

----------------------------------------------------------------------------
(* The tool list and the process-wide configuration, on the whole server. *)

\* The names of the tools a tools/list response carries, in order.
ListedNames == [i \in 1..Len(last.response.tools) |-> last.response.tools[i].name]

StartupFormat == OrElse(env.DATETIME_FORMAT, Str_iso)

StartupTemplate == OrElse(env.DATE_FORMAT_STRING, Str_DefaultTemplate)

StartupTimezone == OrElse(env.TIMEZONE, hostTimeZone)

\* The configuration is the one read at startup, and a request without
\* format and timezone was resolved with it.
C23_State ==
    /\ DATETIME_FORMAT = StartupFormat
    /\ DATE_FORMAT_STRING = StartupTemplate
    /\ TIMEZONE = StartupTimezone
    /\ (IsTimeCall /\ ArgOf("format") = Undefined /\ ArgOf("timezone") = Undefined) =>
          /\ last.format = Some(StartupFormat)
          /\ last.timezone = Some(StartupTimezone)

(* C23: no step changes the process-wide configuration, and after any      *)
(* sequence of requests a get_current_time request without format and      *)
(* timezone is resolved with the defaults read at startup.                 *)
C23_ConfigurationFrame == [](C23_State) /\ [][config' = config]_vars

\* A request without arguments is the last of several, under a configured
\* format and timezone.
C23_Witness ==
    /\ received = MaxRequests
    /\ IsTimeCall
    /\ last.args = Undefined
    /\ env.DATETIME_FORMAT = Some(Str_custom)
    /\ env.TIMEZONE = Some(Str_Tokyo)
    /\ last.format = Some(Str_custom)
    /\ last.timezone = Some(Str_Tokyo)
    /\ Returned

----------------------------------------------------------------------------
(* The formatting engine called twice with the same inputs. *)

\* Invocation i is about to call formatDateTime with the inputs of the call
\* that produced the latest response.
SameInputs(i) ==
    /\ IsTimeCall
    /\ inflight[i].pc = "captured"
    /\ inflight[i].name = Str_get_current_time
    /\ inflight[i].now = last.now
    /\ Some(ResolveFormat(inflight[i].args)) = last.format
    /\ Some(ResolveTimezone(inflight[i].args)) = last.timezone

\* The call that invocation i is about to make gives what the earlier call
\* with the same inputs gave.
C25_State ==
    \A i \in 1..MaxInFlight :
        SameInputs(i) =>
            TryFormat(inflight[i].now, ResolveFormat(inflight[i].args),
                      ResolveTimezone(inflight[i].args)) = last.completion

\* A step that returns a response changes neither configuration, runtime,
\* clock nor process state, nor the locals of another invocation.
C25_Step ==
    last' # last =>
        /\ UNCHANGED <<config, phase, exitCode, clock>>
        /\ \A i \in 1..MaxInFlight :
              inflight'[i] # inflight[i] => inflight'[i] = Idle

----------------------------------------------------------------------------
(* Templates compared with each other and with a single scan, under        *)
(* DATETIME_FORMAT=custom.                                                  *)

\* Year, month and day as a rendering of YYYY-MM-DD or of DD/MM/YYYY shows
\* them, read at the places where the template has the tokens.
YearMonthDayOf(text, template) ==
    IF template = Str_YMD
    THEN <<Field(text, 1, 4), Field(text, 6, 7), Field(text, 9, 10)>>
    ELSE <<Field(text, 7, 10), Field(text, 4, 5), Field(text, 1, 2)>>

\* Of the two templates, the one that is not configured.
OtherOrder == IF DATE_FORMAT_STRING = Str_YMD THEN Str_DMY ELSE Str_YMD

Str_DocYMD == <<"2", "0", "2", "4", "-", "0", "1", "-", "1", "5">>

(* C26: for every instant and timezone, year, month and day read from the  *)
(* output for "YYYY-MM-DD" are those read from the output for              *)
(* "DD/MM/YYYY", and they are the calendar date of the instant in the      *)
(* timezone.                                                               *)
C26_OrderIndependent ==
    (CustomDone /\ DATE_FORMAT_STRING \in {Str_YMD, Str_DMY}) =>
        /\ Len(ResponseText) = 10
        /\ YearMonthDayOf(ResponseText, DATE_FORMAT_STRING)
              = YearMonthDayOf(ResponseUnder(OtherOrder).value.content[1].text,
                               OtherOrder)
        /\ YearMonthDayOf(ResponseText, DATE_FORMAT_STRING)
              = <<Pad4(LastFields.year), Pad2(LastFields.month),
                  Pad2(LastFields.day)>>

\* The documented instant under the template that starts with the year.
C26_Witness ==
    /\ CustomDone
    /\ DATE_FORMAT_STRING = Str_YMD
    /\ last.now = T_Doc
    /\ last.timezone = Some(Str_UTC)
    /\ ResponseText = Str_DocYMD
    /\ ResponseUnder(Str_DMY).value.content[1].text = Str_DocDMY

\* One scan of the template from left to right: at each place the longest
\* token that starts there is replaced by its component, any other
\* character is copied, and the scan goes on behind what it has read.
RECURSIVE Scan(_, _)
Scan(t, comp) ==
    IF t = << >> THEN << >>
    ELSE IF TokenAt(t) = 0 THEN <<Head(t)>> \o Scan(Tail(t), comp)
    ELSE comp[TokenAt(t)] \o Scan(Drop(t, Len(TokenList[TokenAt(t)])), comp)

Str_YearRun == <<"Y", "Y", "Y", "Y", "Y">>

Str_YearRunTokyo == <<"2", "0", "2", "4", "Y">>

(* C29: for every template and instant the seven global replacements, in   *)
(* the order YYYY, YY, MM, DD, HH, mm, ss, give the output of one scan     *)
(* from left to right that replaces non-overlapping tokens, the longest    *)
(* match first.                                                            *)
C29_PassesEqualScan ==
    CustomDone => ResponseText = Scan(DATE_FORMAT_STRING, LastComponents)

\* A run of five Y: the scan takes YYYY and leaves one Y, which no later
\* pass consumes.
C29_Witness ==
    /\ CustomDone
    /\ DATE_FORMAT_STRING = Str_YearRun
    /\ last.now = T_Doc
    /\ last.timezone = Some(Str_Tokyo)
    /\ ResponseText = Str_YearRunTokyo

----------------------------------------------------------------------------
(* Values outside the schema's enums, and the selectors against each       *)
(* other, over the instants of the formatting specification.               *)

\* s without the blanks at its ends.
RECURSIVE Trim(_)
Trim(s) ==
    IF s = << >> THEN s
    ELSE IF Head(s) = " " THEN Trim(Tail(s))
    ELSE IF s[Len(s)] = " " THEN Trim(SubSeq(s, 1, Len(s) - 1))
    ELSE s

\* The selector a format value becomes when case and outer blanks are ignored.
Resembled(format) == Trim(ToLower(format))

\* What the selector gives for the instant and timezone of the latest request.
SelectorText(format) == formatDateTime(last.now, format, last.timezone[1]).value

(* C27: a format that differs from a selector only in letter case or in    *)
(* blanks around it is not rejected and is rendered as the ISO string of   *)
(* the instant, not as the selector it resembles renders it.               *)
C27_ExactSelectors ==
    (IsTimeCall /\ last.format[1] \notin KnownFormats
        /\ Resembled(last.format[1]) \in KnownFormats) =>
        /\ Returned
        /\ ~Flagged
        /\ IsIsoShaped(ResponseText)
        /\ ParseIso(ResponseText) = last.now
        /\ ResponseText = SelectorText(Str_iso)
        /\ Resembled(last.format[1]) # Str_iso =>
              ResponseText # SelectorText(Resembled(last.format[1]))

\* "UNIX" at the documented instant: the ISO string, not 1705314600.
C27_Witness ==
    /\ IsTimeCall
    /\ last.format = Some(Str_UNIX)
    /\ last.now = T_Doc
    /\ ResponseText = Str_DocIso
    /\ SelectorText(Str_unix) = Str_DocUnix

(* C28: a get_timestamp request whose unit is not exactly "milliseconds"   *)
(* (absent, empty, "seconds", or any other string) returns the whole       *)
(* seconds of its instant and no error; with "milliseconds" it returns the *)
(* millisecond count.                                                      *)
C28_OnlyMilliseconds ==
    IsStampCall =>
        /\ Returned
        /\ ~Flagged
        /\ IsDecimal(ResponseText)
        /\ ArgOf("unit") # Some(Str_milliseconds) =>
              StringToInt(ResponseText) = last.now.hi
        /\ ArgOf("unit") = Some(Str_milliseconds) =>
              StringToTimeValue(ResponseText) = last.now

\* "minutes", 1.5 s before the epoch: -2.
C28_Witness ==
    /\ IsStampCall
    /\ ArgOf("unit") = Some(Str_minutes)
    /\ last.now = T_PreEpoch
    /\ ResponseText = Str_PreEpochUnix

(* C30: for every instant and valid timezone the custom selector with the  *)
(* default template gives the date selector's output, a space and the time *)
(* selector's output; get_timestamp gives the unix selector's output for   *)
(* seconds and the unix_ms selector's output for milliseconds.             *)
C30_SelectorsAgree ==
    /\ Rendered(Str_custom) =>
          ResponseText = SelectorText(Str_date) \o <<" ">> \o SelectorText(Str_time)
    /\ Rendered(Str_date) =>
          SelectorText(Str_custom) = ResponseText \o <<" ">> \o SelectorText(Str_time)
    /\ Rendered(Str_time) =>
          SelectorText(Str_custom) = SelectorText(Str_date) \o <<" ">> \o ResponseText
    /\ (IsStampCall /\ last.unit = Some(Str_seconds)) =>
          ResponseText = FormatUnix(last.now).value
    /\ (IsStampCall /\ last.unit = Some(Str_milliseconds)) =>
          ResponseText = FormatUnixMs(last.now).value

\* The custom selector at the documented instant in UTC.
C30_Witness ==
    /\ Rendered(Str_custom)
    /\ DATE_FORMAT_STRING = Str_DefaultTemplate
    /\ last.now = T_Doc
    /\ last.timezone = Some(Str_UTC)
    /\ ResponseText = Str_DocDefaultUtc
    /\ SelectorText(Str_date) = Str_DocDate
    /\ SelectorText(Str_time) = Str_DocTime

============================================================================
